---- MODULE Spec2Model ----
(***************************************************************************)
(* Model of pkg/cfn/builder/iam_helper.go: createRole, makeManagedPolicies *)
(* and NormalizeARN.                                                       *)
(*                                                                         *)
(* A Go string is modelled as a sequence of tokens.  A token is either one *)
(* of the separator characters ":" and "/" or a maximal run of characters  *)
(* that contains neither, so that strings.Split, strings.SplitN,           *)
(* strings.IndexRune and slicing act on a token sequence exactly as they   *)
(* act on the bytes of the string.                                         *)
(***************************************************************************)
EXTENDS Integers, Sequences, FiniteSets, TLC

VARIABLES clusterIAMConfig, iamConfig, managed, enableSSM,
          pc, managedPolicyARNs, err, refIR, appMeshActions, heap, calls,
          arn, normalized

vars == <<clusterIAMConfig, iamConfig, managed, enableSSM,
          pc, managedPolicyARNs, err, refIR, appMeshActions, heap, calls,
          arn, normalized>>

(***************************************************************************)
(* Bounds                                                                  *)
(***************************************************************************)
\* longest AttachPolicyARNs list given to makeManagedPolicies alone
MaxAttach == 2
\* longest AttachPolicyARNs list given to createRole
MaxAttachRole == 2
\* longest input (in tokens) given to NormalizeARN
MaxLen == 5

(***************************************************************************)
(* Strings                                                                 *)
(***************************************************************************)
\* strings.IndexRune(s, c), 1-based; 0 where Go returns -1
IndexRune(s, c) ==
    IF \E i \in 1..Len(s) : s[i] = c
    THEN CHOOSE i \in 1..Len(s) : s[i] = c /\ \A j \in 1..(i - 1) : s[j] # c
    ELSE 0

\* strings.SplitN(s, sep, n) for n >= 1: at most n substrings, the last one
\* the unsplit remainder
RECURSIVE SplitN(_, _, _)
SplitN(s, sep, n) ==
    LET i == IndexRune(s, sep) IN
    IF n <= 1 \/ i = 0
    THEN <<s>>
    ELSE <<SubSeq(s, 1, i - 1)>> \o SplitN(SubSeq(s, i + 1, Len(s)), sep, n - 1)

\* strings.Split(s, sep): all the substrings between separators
RECURSIVE Split(_, _)
Split(s, sep) ==
    LET i == IndexRune(s, sep) IN
    IF i = 0
    THEN <<s>>
    ELSE <<SubSeq(s, 1, i - 1)>> \o Split(SubSeq(s, i + 1, Len(s)), sep)

\* strings.HasPrefix(s, p)
HasPrefix(s, p) == Len(s) >= Len(p) /\ SubSeq(s, 1, Len(p)) = p

\* all sequences over S of length at most n
SeqUpTo(S, n) == UNION {[1..k -> S] : k \in 0..n}

NoDuplicates(s) == \A i, j \in 1..Len(s) : s[i] = s[j] => i = j

(***************************************************************************)
(* Go slices.  heap is the sequence of the backing arrays allocated so     *)
(* far; a slice is the index of its array, its length and its capacity.    *)
(***************************************************************************)
NilSlice == [arr |-> 0, len |-> 0, cap |-> 0]

\* the elements of slice sl
SliceValue(h, sl) == IF sl.arr = 0 THEN <<>> ELSE SubSeq(h[sl.arr], 1, sl.len)

\* a literal built with one spare element of capacity
SliceLiteralSpareCap(h, elems) ==
    [heap |-> Append(h, Append(elems, "")),
     slice |-> [arr |-> Len(h) + 1, len |-> Len(elems), cap |-> Len(elems) + 1]]

\* []string{...}: a new array holding exactly the elements
SliceLiteral(h, elems) ==
    [heap |-> Append(h, elems),
     slice |-> [arr |-> Len(h) + 1, len |-> Len(elems), cap |-> Len(elems)]]

\* append(sl, xs...): in place when the capacity suffices, otherwise into a
\* new array (of twice the capacity, or of the needed length if that is
\* more; the allocator's rounding of the new capacity is left out, no slice
\* is appended to after it has grown)
GoAppend(h, sl, xs) ==
    LET needed == sl.len + Len(xs) IN
    IF needed <= sl.cap
    THEN [heap |-> [h EXCEPT ![sl.arr] =
                       [k \in 1..sl.cap |->
                           IF k > sl.len /\ k <= needed
                           THEN xs[k - sl.len] ELSE h[sl.arr][k]]],
          slice |-> [sl EXCEPT !.len = needed]]
    ELSE LET newcap == IF 2 * sl.cap >= needed THEN 2 * sl.cap ELSE needed IN
         [heap |-> Append(h, [k \in 1..newcap |->
                                 IF k <= sl.len THEN h[sl.arr][k]
                                 ELSE IF k <= needed THEN xs[k - sl.len]
                                 ELSE ""]),
          slice |-> [arr |-> Len(h) + 1, len |-> needed, cap |-> newcap]]

(***************************************************************************)
(* api.IsEnabled and the *bool flags                                       *)
(***************************************************************************)
\* a *bool: nil, pointer to false, pointer to true
BoolPtr == {"unset", "disabled", "enabled"}

IsEnabled(v) == v = "enabled"

(***************************************************************************)
(* Managed policy names                                                    *)
(***************************************************************************)
iamPolicyAmazonEKSWorkerNodePolicy == <<"AmazonEKSWorkerNodePolicy">>
iamPolicyAmazonEKSCNIPolicy == <<"AmazonEKS_CNI_Policy">>
iamPolicyAmazonEC2ContainerRegistryPowerUser == <<"AmazonEC2ContainerRegistryPowerUser">>
iamPolicyAmazonEC2ContainerRegistryReadOnly == <<"AmazonEC2ContainerRegistryReadOnly">>
iamPolicyCloudWatchAgentServerPolicy == <<"CloudWatchAgentServerPolicy">>
iamPolicyAmazonSSMManagedInstanceCore == <<"AmazonSSMManagedInstanceCore">>

\* the default bundle: the worker-node policy; the CNI policy and the
\* registry policies are not part of it, makeManagedPolicies inserts them
\* under their own conditions
iamDefaultNodePolicies == {iamPolicyAmazonEKSWorkerNodePolicy}

\* sets.String.List(): the members in lexicographic (byte) order
SortedPolicyNames ==
    << iamPolicyAmazonEC2ContainerRegistryPowerUser,
       iamPolicyAmazonEC2ContainerRegistryReadOnly,
       iamPolicyAmazonEKSWorkerNodePolicy,
       iamPolicyAmazonEKSCNIPolicy,
       iamPolicyAmazonSSMManagedInstanceCore,
       iamPolicyCloudWatchAgentServerPolicy >>

PolicyNames == {SortedPolicyNames[i] : i \in 1..Len(SortedPolicyNames)}

List(names) == SelectSeq(SortedPolicyNames, LAMBDA n : n \in names)

(***************************************************************************)
(* arn.Parse                                                               *)
(***************************************************************************)
arnPrefix == <<"arn", ":">>
arnSections == 6

Parse(s) ==
    IF ~HasPrefix(s, arnPrefix)
    THEN [err |-> "arn: invalid prefix"]
    ELSE LET sections == SplitN(s, ":", arnSections) IN
         IF Len(sections) # arnSections
         THEN [err |-> "arn: not enough sections"]
         ELSE [err |-> "nil",
               Partition |-> sections[2], Service |-> sections[3],
               Region |-> sections[4], AccountID |-> sections[5],
               Resource |-> sections[6]]

(***************************************************************************)
(* makeManagedPolicies                                                     *)
(***************************************************************************)
\* gfnt.NewString of each string
makeStringSlice(ss) == [i \in 1..Len(ss) |-> [kind |-> "String", value |-> ss[i]]]

\* Fn::Sub of the partition-qualified ARN of each AWS managed policy
makePolicyARNs(ns) ==
    [i \in 1..Len(ns) |->
        [kind |-> "FnSub",
         value |-> <<"arn", ":", "${AWS::Partition}", ":", "iam", ":", ":",
                     "aws", ":", "policy", "/">> \o ns[i]]]

\* InsertedPolicyNames without the insertion made for managed nodegroups
InsertedPolicyNamesNoManagedReadOnly(iamCluster, cfg, isManaged, ssm) ==
    (IF Len(cfg.AttachPolicyARNs) = 0
     THEN iamDefaultNodePolicies
          \cup (IF ~IsEnabled(iamCluster.WithOIDC)
                THEN {iamPolicyAmazonEKSCNIPolicy} ELSE {})
     ELSE {})
    \cup (IF ssm THEN {iamPolicyAmazonSSMManagedInstanceCore} ELSE {})
    \cup (IF IsEnabled(cfg.WithAddonPolicies.ImageBuilder)
          THEN {iamPolicyAmazonEC2ContainerRegistryPowerUser}
          ELSE IF ~isManaged
               THEN {iamPolicyAmazonEC2ContainerRegistryReadOnly}
               ELSE {})
    \cup (IF IsEnabled(cfg.WithAddonPolicies.CloudWatch)
          THEN {iamPolicyCloudWatchAgentServerPolicy} ELSE {})

\* InsertedPolicyNames with "if !managed" in place of "else if !managed"
InsertedPolicyNamesReadOnlyBesidePowerUser(iamCluster, cfg, isManaged, ssm) ==
    (IF Len(cfg.AttachPolicyARNs) = 0
     THEN iamDefaultNodePolicies
          \cup (IF ~IsEnabled(iamCluster.WithOIDC)
                THEN {iamPolicyAmazonEKSCNIPolicy} ELSE {})
          \cup (IF isManaged
                THEN {iamPolicyAmazonEC2ContainerRegistryReadOnly} ELSE {})
     ELSE {})
    \cup (IF ssm THEN {iamPolicyAmazonSSMManagedInstanceCore} ELSE {})
    \cup (IF IsEnabled(cfg.WithAddonPolicies.ImageBuilder)
          THEN {iamPolicyAmazonEC2ContainerRegistryPowerUser} ELSE {})
    \cup (IF ~isManaged
          THEN {iamPolicyAmazonEC2ContainerRegistryReadOnly} ELSE {})
    \cup (IF IsEnabled(cfg.WithAddonPolicies.CloudWatch)
          THEN {iamPolicyCloudWatchAgentServerPolicy} ELSE {})

\* InsertedPolicyNames with the CNI policy among the unconditional defaults
InsertedPolicyNamesCNIByDefault(iamCluster, cfg, isManaged, ssm) ==
    (IF Len(cfg.AttachPolicyARNs) = 0
     THEN iamDefaultNodePolicies
          \cup {iamPolicyAmazonEKSCNIPolicy}
          \cup (IF isManaged
                THEN {iamPolicyAmazonEC2ContainerRegistryReadOnly} ELSE {})
     ELSE {})
    \cup (IF ssm THEN {iamPolicyAmazonSSMManagedInstanceCore} ELSE {})
    \cup (IF IsEnabled(cfg.WithAddonPolicies.ImageBuilder)
          THEN {iamPolicyAmazonEC2ContainerRegistryPowerUser}
          ELSE IF ~isManaged
               THEN {iamPolicyAmazonEC2ContainerRegistryReadOnly}
               ELSE {})
    \cup (IF IsEnabled(cfg.WithAddonPolicies.CloudWatch)
          THEN {iamPolicyCloudWatchAgentServerPolicy} ELSE {})

\* the names inserted before the loop over AttachPolicyARNs
InsertedPolicyNames(iamCluster, cfg, isManaged, ssm) ==
    (IF Len(cfg.AttachPolicyARNs) = 0
     THEN iamDefaultNodePolicies
          \cup (IF ~IsEnabled(iamCluster.WithOIDC)
                THEN {iamPolicyAmazonEKSCNIPolicy} ELSE {})
          \cup (IF isManaged
                THEN {iamPolicyAmazonEC2ContainerRegistryReadOnly} ELSE {})
     ELSE {})
    \cup (IF ssm THEN {iamPolicyAmazonSSMManagedInstanceCore} ELSE {})
    \cup (IF IsEnabled(cfg.WithAddonPolicies.ImageBuilder)
          THEN {iamPolicyAmazonEC2ContainerRegistryPowerUser}
          ELSE IF ~isManaged
               THEN {iamPolicyAmazonEC2ContainerRegistryReadOnly}
               ELSE {})
    \cup (IF IsEnabled(cfg.WithAddonPolicies.CloudWatch)
          THEN {iamPolicyCloudWatchAgentServerPolicy} ELSE {})

\* DeleteAttached deleting the whole resource component ("policy/Name")
\* in place of the resource name
RECURSIVE DeleteAttachedWholeResource(_, _, _)
DeleteAttachedWholeResource(arns, i, names) ==
    IF i > Len(arns)
    THEN [err |-> "nil", names |-> names]
    ELSE LET parsedARN == Parse(arns[i]) IN
         IF parsedARN.err # "nil"
         THEN [err |-> parsedARN.err, names |-> {}]
         ELSE LET start == IndexRune(parsedARN.Resource, "/") IN
              IF start = 0 \/ start = Len(parsedARN.Resource)
              THEN [err |-> "failed to find ARN resource name", names |-> {}]
              ELSE DeleteAttachedWholeResource(arns, i + 1,
                                               names \ {parsedARN.Resource})

\* DeleteAttached accepting a resource that ends with its first '/'
RECURSIVE DeleteAttachedEmptyName(_, _, _)
DeleteAttachedEmptyName(arns, i, names) ==
    IF i > Len(arns)
    THEN [err |-> "nil", names |-> names]
    ELSE LET parsedARN == Parse(arns[i]) IN
         IF parsedARN.err # "nil"
         THEN [err |-> parsedARN.err, names |-> {}]
         ELSE LET start == IndexRune(parsedARN.Resource, "/") IN
              IF start = 0
              THEN [err |-> "failed to find ARN resource name", names |-> {}]
              ELSE LET resourceName ==
                           SubSeq(parsedARN.Resource, start + 1,
                                  Len(parsedARN.Resource))
                   IN DeleteAttachedEmptyName(arns, i + 1, names \ {resourceName})

\* the loop over AttachPolicyARNs from its i-th entry on: the first entry
\* that does not parse, or has no resource name, ends the function
RECURSIVE DeleteAttached(_, _, _)
DeleteAttached(arns, i, names) ==
    IF i > Len(arns)
    THEN [err |-> "nil", names |-> names]
    ELSE LET parsedARN == Parse(arns[i]) IN
         IF parsedARN.err # "nil"
         THEN [err |-> parsedARN.err, names |-> {}]
         ELSE LET start == IndexRune(parsedARN.Resource, "/") IN
              IF start = 0 \/ start = Len(parsedARN.Resource)
              THEN [err |-> "failed to find ARN resource name", names |-> {}]
              ELSE LET resourceName ==
                           SubSeq(parsedARN.Resource, start + 1,
                                  Len(parsedARN.Resource))
                   IN DeleteAttached(arns, i + 1, names \ {resourceName})

\* makeManagedPolicies resolving the names as they were before the loop
makeManagedPoliciesKeepsOverlap(iamCluster, cfg, isManaged, ssm) ==
    LET managedPolicyNames ==
            DeleteAttached(cfg.AttachPolicyARNs, 1,
                           InsertedPolicyNames(iamCluster, cfg, isManaged, ssm))
    IN IF managedPolicyNames.err # "nil"
       THEN [value |-> <<>>, err |-> managedPolicyNames.err]
       ELSE [value |-> makeStringSlice(cfg.AttachPolicyARNs)
                       \o makePolicyARNs(List(
                              InsertedPolicyNames(iamCluster, cfg, isManaged, ssm))),
             err |-> "nil"]

makeManagedPolicies(iamCluster, cfg, isManaged, ssm) ==
    LET managedPolicyNames ==
            DeleteAttached(cfg.AttachPolicyARNs, 1,
                           InsertedPolicyNames(iamCluster, cfg, isManaged, ssm))
    IN IF managedPolicyNames.err # "nil"
       THEN [value |-> <<>>, err |-> managedPolicyNames.err]
       ELSE [value |-> makeStringSlice(cfg.AttachPolicyARNs)
                       \o makePolicyARNs(List(managedPolicyNames.names)),
             err |-> "nil"]

(***************************************************************************)
(* Inputs                                                                  *)
(***************************************************************************)
AddonNames == {"AutoScaler", "CertManager", "ExternalDNS", "AppMesh",
               "AppMeshPreview", "EBS", "FSX", "EFS", "ALBIngress", "XRay",
               "ImageBuilder", "CloudWatch"}

\* "arn:aws:iam::<account>:<resource>"
IAMARN(account, resource) ==
    <<"arn", ":", "aws", ":", "iam", ":", ":", account, ":">> \o resource

\* the ARN of the AWS managed policy of that name
AWSPolicyARN(name) == IAMARN("aws", <<"policy", "/">> \o name)

\* entries that parse and have a resource name
WellFormedARNs ==
    {AWSPolicyARN(n) : n \in PolicyNames}
    \cup { IAMARN("123456789012", <<"policy", "/", "Custom">>),
           \* a customer managed policy named as an AWS managed one
           IAMARN("123456789012",
                  <<"policy", "/">> \o iamPolicyAmazonEC2ContainerRegistryReadOnly),
           \* a policy with a path: the resource name is "team/AmazonEKS_CNI_Policy"
           IAMARN("123456789012",
                  <<"policy", "/", "team", "/">> \o iamPolicyAmazonEKSCNIPolicy),
           \* a resource that ends with a '/' which is not its first: the
           \* resource name is "team/"
           IAMARN("123456789012", <<"policy", "/", "team", "/">>) }

\* entries on which the loop of makeManagedPolicies returns an error
MalformedARNs ==
    { \* "arn:aws:iam::123456789012:role": no '/' in the resource
      IAMARN("123456789012", <<"role">>),
      \* "arn:aws:iam::aws:policy/": the '/' is the last character
      IAMARN("aws", <<"policy", "/">>),
      \* "aws:iam::aws:policy/Custom": no "arn:" prefix
      <<"aws", ":", "iam", ":", ":", "aws", ":", "policy", "/", "Custom">>,
      \* "arn:aws:iam:policy/Custom": four sections
      <<"arn", ":", "aws", ":", "iam", ":", "policy", "/", "Custom">> }

PolicyARNs == WellFormedARNs \cup MalformedARNs

NoAddons == [a \in AddonNames |-> "unset"]

NodeGroupIAM(attach, roleName, boundary, addons) ==
    [AttachPolicyARNs |-> attach,
     InstanceRoleName |-> roleName,
     InstanceRolePermissionsBoundary |-> boundary,
     WithAddonPolicies |-> addons]

(***************************************************************************)
(* makeManagedPolicies called on its own                                   *)
(***************************************************************************)
InitManagedPolicies ==
    /\ clusterIAMConfig \in [WithOIDC : BoolPtr]
    /\ \E attach \in SeqUpTo(PolicyARNs, MaxAttach), ib, cw \in BoolPtr :
          iamConfig = NodeGroupIAM(attach, <<>>, <<>>,
                          [NoAddons EXCEPT !.ImageBuilder = ib, !.CloudWatch = cw])
    /\ managed \in BOOLEAN
    /\ enableSSM \in BOOLEAN
    /\ pc = "makeManagedPolicies"
    /\ managedPolicyARNs = <<>>
    /\ err = "nil"
    /\ refIR = "none"
    /\ appMeshActions = NilSlice
    /\ heap = <<>>
    /\ calls = <<>>
    /\ arn = <<>>
    /\ normalized = <<>>

MakeManagedPolicies ==
    /\ pc = "makeManagedPolicies"
    /\ LET r == makeManagedPolicies(clusterIAMConfig, iamConfig, managed, enableSSM)
       IN /\ managedPolicyARNs' = r.value
          /\ err' = r.err
    /\ pc' = "returned"
    /\ UNCHANGED <<clusterIAMConfig, iamConfig, managed, enableSSM,
                   refIR, appMeshActions, heap, calls, arn, normalized>>

NextManagedPolicies == MakeManagedPolicies

SpecManagedPolicies == InitManagedPolicies /\ [][NextManagedPolicies]_vars

(***************************************************************************)
(* NormalizeARN                                                            *)
(***************************************************************************)
\* NormalizeARN keeping the second path segment in place of the last
NormalizeARNSecondSegment(s) ==
    LET parts == Split(s, "/") IN
    IF Len(parts) <= 1
    THEN s
    ELSE parts[1] \o <<"/">> \o parts[2]

NormalizeARN(s) ==
    LET parts == Split(s, "/") IN
    IF Len(parts) <= 1
    THEN s
    ELSE parts[1] \o <<"/">> \o parts[Len(parts)]

NormalizeInputs == SeqUpTo({"a", "b", "/"}, MaxLen)

InitNormalize ==
    /\ arn \in NormalizeInputs
    /\ normalized = <<>>
    /\ pc = "NormalizeARN"
    /\ clusterIAMConfig = [WithOIDC |-> "unset"]
    /\ iamConfig = NodeGroupIAM(<<>>, <<>>, <<>>, NoAddons)
    /\ managed = FALSE
    /\ enableSSM = FALSE
    /\ managedPolicyARNs = <<>>
    /\ err = "nil"
    /\ refIR = "none"
    /\ appMeshActions = NilSlice
    /\ heap = <<>>
    /\ calls = <<>>

CallNormalizeARN ==
    /\ pc = "NormalizeARN"
    /\ normalized' = NormalizeARN(arn)
    /\ pc' = "normalized"
    /\ UNCHANGED <<clusterIAMConfig, iamConfig, managed, enableSSM,
                   managedPolicyARNs, err, refIR, appMeshActions, heap,
                   calls, arn>>

NextNormalize == CallNormalizeARN

SpecNormalize == InitNormalize /\ [][NextNormalize]_vars

(***************************************************************************)
(* createRole: the statements' action lists                                *)
(***************************************************************************)
\* iam_helper.go lines 45-53
autoScalingActions ==
    << "autoscaling:DescribeAutoScalingGroups",
       "autoscaling:DescribeAutoScalingInstances",
       "autoscaling:DescribeLaunchConfigurations",
       "autoscaling:DescribeTags",
       "autoscaling:SetDesiredCapacity",
       "autoscaling:TerminateInstanceInAutoScalingGroup",
       "ec2:DescribeLaunchTemplateVersions" >>

\* iam_helper.go lines 59-61
certManagerChangeSetActions ==
    << "route53:ChangeResourceRecordSets" >>

\* iam_helper.go lines 64-67
hostedZonePolicyBase ==
    << "route53:ListResourceRecordSets",
       "route53:ListHostedZonesByName" >>

\* iam_helper.go lines 75-77
certManagerGetChangeActions ==
    << "route53:GetChange" >>

\* iam_helper.go lines 81-83
externalDNSChangeSetActions ==
    << "route53:ChangeResourceRecordSets" >>

\* iam_helper.go lines 86-90
externalDNSHostedZonesActions ==
    << "route53:ListHostedZones",
       "route53:ListResourceRecordSets",
       "route53:ListTagsForResource" >>

\* iam_helper.go lines 94-112
appMeshActionsLiteral ==
    << "servicediscovery:CreateService",
       "servicediscovery:DeleteService",
       "servicediscovery:GetService",
       "servicediscovery:GetInstance",
       "servicediscovery:RegisterInstance",
       "servicediscovery:DeregisterInstance",
       "servicediscovery:ListInstances",
       "servicediscovery:ListNamespaces",
       "servicediscovery:ListServices",
       "servicediscovery:GetInstancesHealthStatus",
       "servicediscovery:UpdateInstanceCustomHealthStatus",
       "servicediscovery:GetOperation",
       "route53:GetHealthCheck",
       "route53:CreateHealthCheck",
       "route53:UpdateHealthCheck",
       "route53:ChangeResourceRecordSets",
       "route53:DeleteHealthCheck" >>

\* iam_helper.go lines 128-144
ebsActions ==
    << "ec2:AttachVolume",
       "ec2:CreateSnapshot",
       "ec2:CreateTags",
       "ec2:CreateVolume",
       "ec2:DeleteSnapshot",
       "ec2:DeleteTags",
       "ec2:DeleteVolume",
       "ec2:DescribeAvailabilityZones",
       "ec2:DescribeInstances",
       "ec2:DescribeSnapshots",
       "ec2:DescribeTags",
       "ec2:DescribeVolumes",
       "ec2:DescribeVolumesModifications",
       "ec2:DetachVolume",
       "ec2:ModifyVolume" >>

\* iam_helper.go lines 150-152
fsxActions ==
    << "fsx:*" >>

\* iam_helper.go lines 155-159
serviceLinkRoleActions ==
    << "iam:CreateServiceLinkedRole",
       "iam:AttachRolePolicy",
       "iam:PutRolePolicy" >>

\* iam_helper.go lines 165-167
efsActions ==
    << "elasticfilesystem:*" >>

\* iam_helper.go lines 170-177
efsEC2Actions ==
    << "ec2:DescribeSubnets",
       "ec2:CreateNetworkInterface",
       "ec2:DescribeNetworkInterfaces",
       "ec2:DeleteNetworkInterface",
       "ec2:ModifyNetworkInterfaceAttribute",
       "ec2:DescribeNetworkInterfaceAttribute" >>

\* iam_helper.go lines 183-258
albIngressActions ==
    << "acm:DescribeCertificate",
       "acm:ListCertificates",
       "acm:GetCertificate",
       "ec2:AuthorizeSecurityGroupIngress",
       "ec2:CreateSecurityGroup",
       "ec2:CreateTags",
       "ec2:DeleteTags",
       "ec2:DeleteSecurityGroup",
       "ec2:DescribeAccountAttributes",
       "ec2:DescribeAddresses",
       "ec2:DescribeInstances",
       "ec2:DescribeInstanceStatus",
       "ec2:DescribeInternetGateways",
       "ec2:DescribeNetworkInterfaces",
       "ec2:DescribeSecurityGroups",
       "ec2:DescribeSubnets",
       "ec2:DescribeTags",
       "ec2:DescribeVpcs",
       "ec2:ModifyInstanceAttribute",
       "ec2:ModifyNetworkInterfaceAttribute",
       "ec2:RevokeSecurityGroupIngress",
       "elasticloadbalancing:AddListenerCertificates",
       "elasticloadbalancing:AddTags",
       "elasticloadbalancing:CreateListener",
       "elasticloadbalancing:CreateLoadBalancer",
       "elasticloadbalancing:CreateRule",
       "elasticloadbalancing:CreateTargetGroup",
       "elasticloadbalancing:DeleteListener",
       "elasticloadbalancing:DeleteLoadBalancer",
       "elasticloadbalancing:DeleteRule",
       "elasticloadbalancing:DeleteTargetGroup",
       "elasticloadbalancing:DeregisterTargets",
       "elasticloadbalancing:DescribeListenerCertificates",
       "elasticloadbalancing:DescribeListeners",
       "elasticloadbalancing:DescribeLoadBalancers",
       "elasticloadbalancing:DescribeLoadBalancerAttributes",
       "elasticloadbalancing:DescribeRules",
       "elasticloadbalancing:DescribeSSLPolicies",
       "elasticloadbalancing:DescribeTags",
       "elasticloadbalancing:DescribeTargetGroups",
       "elasticloadbalancing:DescribeTargetGroupAttributes",
       "elasticloadbalancing:DescribeTargetHealth",
       "elasticloadbalancing:ModifyListener",
       "elasticloadbalancing:ModifyLoadBalancerAttributes",
       "elasticloadbalancing:ModifyRule",
       "elasticloadbalancing:ModifyTargetGroup",
       "elasticloadbalancing:ModifyTargetGroupAttributes",
       "elasticloadbalancing:RegisterTargets",
       "elasticloadbalancing:RemoveListenerCertificates",
       "elasticloadbalancing:RemoveTags",
       "elasticloadbalancing:SetIpAddressType",
       "elasticloadbalancing:SetSecurityGroups",
       "elasticloadbalancing:SetSubnets",
       "elasticloadbalancing:SetWebACL",
       "iam:CreateServiceLinkedRole",
       "iam:GetServerCertificate",
       "iam:ListServerCertificates",
       "waf-regional:GetWebACLForResource",
       "waf-regional:GetWebACL",
       "waf-regional:AssociateWebACL",
       "waf-regional:DisassociateWebACL",
       "tag:GetResources",
       "tag:TagResources",
       "waf:GetWebACL",
       "wafv2:GetWebACL",
       "wafv2:GetWebACLForResource",
       "wafv2:AssociateWebACL",
       "wafv2:DisassociateWebACL",
       "shield:DescribeProtection",
       "shield:GetSubscriptionState",
       "shield:DeleteProtection",
       "shield:CreateProtection",
       "shield:DescribeSubscription",
       "shield:ListProtections" >>

\* iam_helper.go lines 264-270
xrayActions ==
    << "xray:PutTraceSegments",
       "xray:PutTelemetryRecords",
       "xray:GetSamplingRules",
       "xray:GetSamplingTargets",
       "xray:GetSamplingStatisticSummaries" >>

(***************************************************************************)
(* createRole                                                              *)
(***************************************************************************)
cfnIAMInstanceRoleName == <<"NodeInstanceRole">>

NewString(str) == [kind |-> "String", value |-> str]

NilValue == [kind |-> "nil", value |-> <<>>]

\* Fn::Sub of "arn:${AWS::Partition}:" followed by the resource pattern
addARNPartitionPrefix(str) ==
    [kind |-> "FnSub", value |-> <<"arn", ":", "${AWS::Partition}", ":">> \o str]

hostedZonePattern == <<"route53", ":", ":", ":", "hostedzone", "/", "*">>
changePattern == <<"route53", ":", ":", ":", "change", "/", "*">>
serviceRolePattern ==
    <<"iam", ":", ":", "*", ":", "role", "/", "aws-service-role", "/", "*">>

Wildcard == NewString(<<"*">>)

\* the collaborator's record of one attachAllowPolicy call; st is the pair
\* of the heap and the calls made so far
attachAllowPolicy(st, name, refRole, resources, actions) ==
    [st EXCEPT !.calls = Append(@, [op |-> "attachAllowPolicy", name |-> name,
                                    refRole |-> refRole, resources |-> resources,
                                    actions |-> actions])]

\* attachAllowPolicy(name, refRole, resources, []string{...})
attachLiteral(st, name, refRole, resources, elems) ==
    LET lit == SliceLiteral(st.heap, elems)
    IN attachAllowPolicy([st EXCEPT !.heap = lit.heap],
                         name, refRole, resources, lit.slice)

Here == [heap |-> heap, calls |-> calls]

Inputs == <<clusterIAMConfig, iamConfig, managed, enableSSM, arn, normalized>>

\* lines 23-26
CreateRoleMakeManagedPolicies ==
    /\ pc = "createRole"
    /\ LET r == makeManagedPolicies(clusterIAMConfig, iamConfig, managed, enableSSM)
       IN /\ managedPolicyARNs' = r.value
          /\ err' = r.err
          /\ pc' = IF r.err # "nil" THEN "returned" ELSE "newResource"
    /\ UNCHANGED <<Inputs, refIR, appMeshActions, heap, calls>>

\* lines 27-41
CreateRoleNewResource ==
    /\ pc = "newResource"
    /\ LET role ==
              [Path |-> NewString(<<"/">>),
               \* the trust policy for the EC2 service
               AssumeRolePolicyDocument |-> <<"EC2">>,
               ManagedPolicyArns |-> managedPolicyARNs,
               RoleName |->
                   IF iamConfig.InstanceRoleName # <<>>
                   THEN NewString(iamConfig.InstanceRoleName) ELSE NilValue,
               PermissionsBoundary |->
                   IF iamConfig.InstanceRolePermissionsBoundary # <<>>
                   THEN NewString(iamConfig.InstanceRolePermissionsBoundary)
                   ELSE NilValue]
       IN calls' = Append(calls, [op |-> "newResource",
                                  name |-> cfnIAMInstanceRoleName,
                                  resource |-> role])
    /\ refIR' = cfnIAMInstanceRoleName
    /\ pc' = "AutoScaler"
    /\ UNCHANGED <<Inputs, managedPolicyARNs, err, appMeshActions, heap>>

\* lines 43-55
CreateRoleAutoScaler ==
    /\ pc = "AutoScaler"
    /\ LET st == IF IsEnabled(iamConfig.WithAddonPolicies.AutoScaler)
                 THEN attachLiteral(Here, "PolicyAutoScaling", refIR, Wildcard,
                                    autoScalingActions)
                 ELSE Here
       IN heap' = st.heap /\ calls' = st.calls
    /\ pc' = "CertManager"
    /\ UNCHANGED <<Inputs, managedPolicyARNs, err, refIR, appMeshActions>>

\* the CertManager branch, lines 58-78
CertManagerStatements(st0, cfg, ref) ==
    LET st1 == attachLiteral(st0, "PolicyCertManagerChangeSet", ref,
                             addARNPartitionPrefix(hostedZonePattern),
                             certManagerChangeSetActions)
        lit == SliceLiteral(st1.heap, hostedZonePolicyBase)
        hostedZonePolicy ==
            IF IsEnabled(cfg.WithAddonPolicies.ExternalDNS)
            THEN GoAppend(lit.heap, lit.slice,
                          <<"route53:ListHostedZones", "route53:ListTagsForResource">>)
            ELSE lit
        st2 == attachAllowPolicy([st1 EXCEPT !.heap = hostedZonePolicy.heap],
                                 "PolicyCertManagerHostedZones", ref, Wildcard,
                                 hostedZonePolicy.slice)
    IN attachLiteral(st2, "PolicyCertManagerGetChange", ref,
                     addARNPartitionPrefix(changePattern),
                     certManagerGetChangeActions)

\* the ExternalDNS branch, lines 80-91
ExternalDNSStatements(st0, ref) ==
    LET st1 == attachLiteral(st0, "PolicyExternalDNSChangeSet", ref,
                             addARNPartitionPrefix(hostedZonePattern),
                             externalDNSChangeSetActions)
    IN attachLiteral(st1, "PolicyExternalDNSHostedZones", ref, Wildcard,
                     externalDNSHostedZonesActions)

\* lines 57-92 with "if" in place of "else if"
CertManagerExternalDNSBoth(st0, cfg, ref) ==
    LET st1 == IF IsEnabled(cfg.WithAddonPolicies.CertManager)
               THEN CertManagerStatements(st0, cfg, ref) ELSE st0
    IN IF IsEnabled(cfg.WithAddonPolicies.ExternalDNS)
       THEN ExternalDNSStatements(st1, ref) ELSE st1

\* lines 57-92
CertManagerExternalDNS(st0, cfg, ref) ==
    IF IsEnabled(cfg.WithAddonPolicies.CertManager)
    THEN CertManagerStatements(st0, cfg, ref)
    ELSE IF IsEnabled(cfg.WithAddonPolicies.ExternalDNS)
         THEN ExternalDNSStatements(st0, ref)
         ELSE st0

CreateRoleCertManager ==
    /\ pc = "CertManager"
    /\ LET st == CertManagerExternalDNS(Here, iamConfig, refIR)
       IN heap' = st.heap /\ calls' = st.calls
    /\ pc' = "AppMesh"
    /\ UNCHANGED <<Inputs, managedPolicyARNs, err, refIR, appMeshActions>>

\* lines 94-118
CreateRoleAppMesh ==
    /\ pc = "AppMesh"
    /\ LET lit == SliceLiteral(heap, appMeshActionsLiteral)
           app == GoAppend(lit.heap, lit.slice, <<"appmesh:*">>)
           st == IF IsEnabled(iamConfig.WithAddonPolicies.AppMesh)
                 THEN attachAllowPolicy([heap |-> app.heap, calls |-> calls],
                                        "PolicyAppMesh", refIR, Wildcard, app.slice)
                 ELSE [heap |-> lit.heap, calls |-> calls]
       IN /\ appMeshActions' = lit.slice
          /\ heap' = st.heap
          /\ calls' = st.calls
    /\ pc' = "AppMeshPreview"
    /\ UNCHANGED <<Inputs, managedPolicyARNs, err, refIR>>

\* lines 120-124
CreateRoleAppMeshPreview ==
    /\ pc = "AppMeshPreview"
    /\ LET app == GoAppend(heap, appMeshActions, <<"appmesh-preview:*">>)
           st == IF IsEnabled(iamConfig.WithAddonPolicies.AppMeshPreview)
                 THEN attachAllowPolicy([heap |-> app.heap, calls |-> calls],
                                        "PolicyAppMeshPreview", refIR, Wildcard,
                                        app.slice)
                 ELSE Here
       IN heap' = st.heap /\ calls' = st.calls
    /\ pc' = "EBS"
    /\ UNCHANGED <<Inputs, managedPolicyARNs, err, refIR, appMeshActions>>

\* lines 126-146
CreateRoleEBS ==
    /\ pc = "EBS"
    /\ LET st == IF IsEnabled(iamConfig.WithAddonPolicies.EBS)
                 THEN attachLiteral(Here, "PolicyEBS", refIR, Wildcard, ebsActions)
                 ELSE Here
       IN heap' = st.heap /\ calls' = st.calls
    /\ pc' = "FSX"
    /\ UNCHANGED <<Inputs, managedPolicyARNs, err, refIR, appMeshActions>>

\* lines 148-161
CreateRoleFSX ==
    /\ pc = "FSX"
    /\ LET st == IF IsEnabled(iamConfig.WithAddonPolicies.FSX)
                 THEN attachLiteral(
                          attachLiteral(Here, "PolicyFSX", refIR, Wildcard,
                                        fsxActions),
                          "PolicyServiceLinkRole", refIR,
                          addARNPartitionPrefix(serviceRolePattern),
                          serviceLinkRoleActions)
                 ELSE Here
       IN heap' = st.heap /\ calls' = st.calls
    /\ pc' = "EFS"
    /\ UNCHANGED <<Inputs, managedPolicyARNs, err, refIR, appMeshActions>>

\* lines 163-179
CreateRoleEFS ==
    /\ pc = "EFS"
    /\ LET st == IF IsEnabled(iamConfig.WithAddonPolicies.EFS)
                 THEN attachLiteral(
                          attachLiteral(Here, "PolicyEFS", refIR, Wildcard,
                                        efsActions),
                          "PolicyEFSEC2", refIR, Wildcard, efsEC2Actions)
                 ELSE Here
       IN heap' = st.heap /\ calls' = st.calls
    /\ pc' = "ALBIngress"
    /\ UNCHANGED <<Inputs, managedPolicyARNs, err, refIR, appMeshActions>>

\* lines 181-260
CreateRoleALBIngress ==
    /\ pc = "ALBIngress"
    /\ LET st == IF IsEnabled(iamConfig.WithAddonPolicies.ALBIngress)
                 THEN attachLiteral(Here, "PolicyALBIngress", refIR, Wildcard,
                                    albIngressActions)
                 ELSE Here
       IN heap' = st.heap /\ calls' = st.calls
    /\ pc' = "XRay"
    /\ UNCHANGED <<Inputs, managedPolicyARNs, err, refIR, appMeshActions>>

\* lines 262-273 testing the ALBIngress flag again in place of XRay
CreateRoleXRayOnALBIngressFlag ==
    /\ pc = "XRay"
    /\ LET st == IF IsEnabled(iamConfig.WithAddonPolicies.ALBIngress)
                 THEN attachLiteral(Here, "PolicyXRay", refIR, Wildcard, xrayActions)
                 ELSE Here
       IN heap' = st.heap /\ calls' = st.calls
    /\ pc' = "returned"
    /\ UNCHANGED <<Inputs, managedPolicyARNs, err, refIR, appMeshActions>>

\* lines 262-273
CreateRoleXRay ==
    /\ pc = "XRay"
    /\ LET st == IF IsEnabled(iamConfig.WithAddonPolicies.XRay)
                 THEN attachLiteral(Here, "PolicyXRay", refIR, Wildcard, xrayActions)
                 ELSE Here
       IN heap' = st.heap /\ calls' = st.calls
    /\ pc' = "returned"
    /\ UNCHANGED <<Inputs, managedPolicyARNs, err, refIR, appMeshActions>>

NextCreateRole ==
    \/ CreateRoleMakeManagedPolicies
    \/ CreateRoleNewResource
    \/ CreateRoleAutoScaler
    \/ CreateRoleCertManager
    \/ CreateRoleAppMesh
    \/ CreateRoleAppMeshPreview
    \/ CreateRoleEBS
    \/ CreateRoleFSX
    \/ CreateRoleEFS
    \/ CreateRoleALBIngress
    \/ CreateRoleXRay

\* the addons whose statements do not depend on another addon's flag
PlainAddons == {"AutoScaler", "EBS", "FSX", "EFS", "ALBIngress", "XRay"}

\* inputs that vary the addon flags: every combination of enabled plain
\* addons, and every value of the CertManager, ExternalDNS, AppMesh and
\* AppMeshPreview flags
AddonInputs ==
    /\ clusterIAMConfig = [WithOIDC |-> "unset"]
    /\ managed \in BOOLEAN
    /\ enableSSM = FALSE
    /\ \E cm, ed, am, ap \in BoolPtr, on \in SUBSET PlainAddons,
          roleName \in {<<>>, <<"custom-role">>},
          boundary \in {<<>>, IAMARN("123456789012", <<"policy", "/", "boundary">>)} :
          iamConfig = NodeGroupIAM(<<>>, roleName, boundary,
                          [a \in AddonNames |->
                              IF a = "CertManager" THEN cm
                              ELSE IF a = "ExternalDNS" THEN ed
                              ELSE IF a = "AppMesh" THEN am
                              ELSE IF a = "AppMeshPreview" THEN ap
                              ELSE IF a \in on THEN "enabled"
                              ELSE IF a \in PlainAddons THEN "disabled"
                              ELSE "unset"])

RoleAttachARNs ==
    MalformedARNs
    \cup {AWSPolicyARN(iamPolicyAmazonEC2ContainerRegistryReadOnly),
          IAMARN("123456789012", <<"policy", "/", "Custom">>),
          IAMARN("123456789012", <<"policy", "/", "team", "/">>)}

\* inputs that vary what makeManagedPolicies reads: AttachPolicyARNs with
\* well-formed and malformed entries at every position, and every flag
PolicyInputs ==
    /\ clusterIAMConfig \in [WithOIDC : BoolPtr]
    /\ managed \in BOOLEAN
    /\ enableSSM \in BOOLEAN
    /\ \E attach \in SeqUpTo(RoleAttachARNs, MaxAttachRole), ib, cw \in BoolPtr,
          others \in {"unset", "enabled"} :
          iamConfig = NodeGroupIAM(attach, <<>>, <<>>,
                          [a \in AddonNames |->
                              IF a = "ImageBuilder" THEN ib
                              ELSE IF a = "CloudWatch" THEN cw
                              ELSE others])

InitCreateRole ==
    /\ AddonInputs \/ PolicyInputs
    /\ pc = "createRole"
    /\ managedPolicyARNs = <<>>
    /\ err = "nil"
    /\ refIR = "none"
    /\ appMeshActions = NilSlice
    /\ heap = <<>>
    /\ calls = <<>>
    /\ arn = <<>>
    /\ normalized = <<>>

SpecCreateRole == InitCreateRole /\ [][NextCreateRole]_vars

(***************************************************************************)
(* Properties of makeManagedPolicies                                       *)
(***************************************************************************)
ReturnedOK == pc = "returned" /\ err = "nil"

AttachPolicyARNs == iamConfig.AttachPolicyARNs

\* the result has the policy of that short name as resolved by makePolicyARNs
HasResolved(name) ==
    \E i \in 1..Len(managedPolicyARNs) :
        /\ managedPolicyARNs[i].kind = "FnSub"
        /\ managedPolicyARNs[i].value =
               <<"arn", ":", "${AWS::Partition}", ":", "iam", ":", ":",
                 "aws", ":", "policy", "/">> \o name

\* s is an ARN of the AWS managed policy of that short name
IsAWSManagedPolicy(s, name) ==
    /\ Len(s) >= 9
    /\ s[1] = "arn" /\ s[2] = ":" /\ s[3] # ":" /\ s[4] = ":" /\ s[5] = "iam"
    /\ s[6] = ":" /\ s[7] = ":" /\ s[8] = "aws" /\ s[9] = ":"
    /\ SubSeq(s, 10, Len(s)) = <<"policy", "/">> \o name

\* the result has an ARN of that AWS managed policy as the caller gave it
HasExplicit(name) ==
    \E i \in 1..Len(managedPolicyARNs) :
        /\ managedPolicyARNs[i].kind = "String"
        /\ IsAWSManagedPolicy(managedPolicyARNs[i].value, name)

ContainsPolicy(name) == HasResolved(name) \/ HasExplicit(name)

\* the substring after the first '/' that follows the fifth ':' of s, for an
\* s that has five ':' and a '/' after them
AfterFirstSlashOfResource(s) ==
    LET colons == {i \in 1..Len(s) : s[i] = ":"}
        fifth == CHOOSE i \in colons : Cardinality({j \in colons : j < i}) = 4
        slash == CHOOSE i \in (fifth + 1)..Len(s) :
                     s[i] = "/" /\ \A j \in (fifth + 1)..(i - 1) : s[j] # "/"
    IN SubSeq(s, slash + 1, Len(s))

\* the entries of AttachPolicyARNs whose resource name is that short name
AttachedAs(name) ==
    {i \in 1..Len(AttachPolicyARNs) :
        AfterFirstSlashOfResource(AttachPolicyARNs[i]) = name}

\* C1 as claimed: whenever makeManagedPolicies returns without error for a
\* managed nodegroup, the result contains AmazonEC2ContainerRegistryReadOnly,
\* whether AttachPolicyARNs is empty or not.
C1_ManagedAlwaysHasReadOnly ==
    (ReturnedOK /\ managed)
        => ContainsPolicy(iamPolicyAmazonEC2ContainerRegistryReadOnly)

\* C1 amended: for a managed nodegroup with an empty AttachPolicyARNs the
\* result contains AmazonEC2ContainerRegistryReadOnly under every flag
\* combination; with a non-empty AttachPolicyARNs makeManagedPolicies does
\* not add it, so the result has it only if the caller attached it.
C1_ManagedHasReadOnlyWhenNothingAttached ==
    (ReturnedOK /\ managed)
        => IF Len(AttachPolicyARNs) = 0
           THEN HasResolved(iamPolicyAmazonEC2ContainerRegistryReadOnly)
           ELSE ~HasResolved(iamPolicyAmazonEC2ContainerRegistryReadOnly)

C1_Witness ==
    /\ ReturnedOK /\ managed /\ Len(AttachPolicyARNs) = 0
    /\ IsEnabled(iamConfig.WithAddonPolicies.ImageBuilder)
    /\ HasResolved(iamPolicyAmazonEC2ContainerRegistryPowerUser)
    /\ HasResolved(iamPolicyAmazonEC2ContainerRegistryReadOnly)

Partitions == {"aws", "aws-cn"}

ResolvedIn(partition) ==
    [i \in 1..Len(managedPolicyARNs) |->
        IF managedPolicyARNs[i].kind = "FnSub"
        THEN [k \in 1..Len(managedPolicyARNs[i].value) |->
                 IF managedPolicyARNs[i].value[k] = "${AWS::Partition}"
                 THEN partition
                 ELSE managedPolicyARNs[i].value[k]]
        ELSE managedPolicyARNs[i].value]

C4_AttachedOverridesDefault ==
    ReturnedOK
        => \A name \in PolicyNames : \A i \in AttachedAs(name) :
               /\ ~HasResolved(name)
               /\ managedPolicyARNs[i] = [kind |-> "String",
                                          value |-> AttachPolicyARNs[i]]

C4_Witness ==
    /\ ReturnedOK /\ ~managed
    /\ ~IsEnabled(iamConfig.WithAddonPolicies.ImageBuilder)
    /\ AttachedAs(iamPolicyAmazonEC2ContainerRegistryReadOnly) # {}
    /\ ~HasResolved(iamPolicyAmazonEC2ContainerRegistryReadOnly)

\* C6: with an empty AttachPolicyARNs, the result contains AmazonEKS_CNI_Policy
\* exactly when the cluster's WithOIDC is not enabled (disabled or unset),
\* whatever managed, enableSSM, ImageBuilder and CloudWatch are.
C6_CNIPolicyUnlessOIDC ==
    (pc = "returned" /\ Len(AttachPolicyARNs) = 0)
        => /\ err = "nil"
           /\ ContainsPolicy(iamPolicyAmazonEKSCNIPolicy)
                 <=> clusterIAMConfig.WithOIDC # "enabled"

C6_Witness ==
    /\ ReturnedOK /\ Len(AttachPolicyARNs) = 0
    /\ clusterIAMConfig.WithOIDC = "enabled"
    /\ ~ContainsPolicy(iamPolicyAmazonEKSCNIPolicy)
    /\ Len(managedPolicyARNs) > 0

(***************************************************************************)
(* Properties of createRole                                                *)
(***************************************************************************)
Range(f) == {f[i] : i \in DOMAIN f}

Colons(s) == {i \in 1..Len(s) : s[i] = ":"}

\* s does not parse as an ARN, or the resource component of s has no '/',
\* or its first '/' is its last character
IsMalformed(s) ==
    \/ Len(s) < 2
    \/ s[1] # "arn"
    \/ s[2] # ":"
    \/ Cardinality(Colons(s)) < 5
    \/ LET fifth == CHOOSE i \in Colons(s) :
                        Cardinality({j \in Colons(s) : j < i}) = 4
           slashes == {i \in (fifth + 1)..Len(s) : s[i] = "/"}
       IN \/ slashes = {}
          \/ \A i \in slashes : i >= Len(s)

\* C5: if any entry of AttachPolicyARNs is malformed, at whatever position
\* and whatever the other entries and flags, createRole returns an error and
\* has called neither newResource nor attachAllowPolicy.
C5_MalformedARNRegistersNothing ==
    (\E i \in 1..Len(AttachPolicyARNs) : IsMalformed(AttachPolicyARNs[i]))
        => /\ calls = <<>>
           /\ pc \in {"createRole", "returned"}
           /\ pc = "returned" => err # "nil"

C5_Witness ==
    /\ pc = "returned" /\ err = "failed to find ARN resource name"
    /\ Len(AttachPolicyARNs) = 2
    /\ ~IsMalformed(AttachPolicyARNs[1])
    /\ IsMalformed(AttachPolicyARNs[2])
    /\ IsEnabled(iamConfig.WithAddonPolicies.XRay)
    /\ calls = <<>>

AttachCalls == {i \in 1..Len(calls) : calls[i].op = "attachAllowPolicy"}

CallsNamed(name) == {i \in AttachCalls : calls[i].name = name}

\* the action list the collaborator holds for its i-th call
ActionsOf(i) == SliceValue(heap, calls[i].actions)

ReturnedNil == pc = "returned" /\ err = "nil"

\* the calls that grant route53:ChangeResourceRecordSets on hosted zones
HostedZoneChangeCalls ==
    {i \in AttachCalls :
        /\ calls[i].resources =
               [kind |-> "FnSub",
                value |-> <<"arn", ":", "${AWS::Partition}", ":", "route53",
                            ":", ":", ":", "hostedzone", "/", "*">>]
        /\ "route53:ChangeResourceRecordSets" \in Range(ActionsOf(i))}

\* C7: with CertManager and ExternalDNS both enabled createRole attaches
\* exactly one statement granting route53:ChangeResourceRecordSets on the
\* hosted-zone pattern, the cert-manager one, and no PolicyExternalDNS*
\* statement; the actions of PolicyCertManagerHostedZones are then those
\* attached with CertManager alone followed by route53:ListHostedZones and
\* route53:ListTagsForResource.
C7_CertManagerSubsumesExternalDNS ==
    (ReturnedNil /\ IsEnabled(iamConfig.WithAddonPolicies.CertManager))
        => /\ Cardinality(CallsNamed("PolicyCertManagerHostedZones")) = 1
           /\ Cardinality(HostedZoneChangeCalls) = 1
           /\ \A i \in HostedZoneChangeCalls :
                  calls[i].name = "PolicyCertManagerChangeSet"
           /\ CallsNamed("PolicyExternalDNSChangeSet") = {}
           /\ CallsNamed("PolicyExternalDNSHostedZones") = {}
           /\ \A i \in CallsNamed("PolicyCertManagerHostedZones") :
                  /\ calls[i].resources = [kind |-> "String", value |-> <<"*">>]
                  /\ ActionsOf(i) =
                         IF IsEnabled(iamConfig.WithAddonPolicies.ExternalDNS)
                         THEN <<"route53:ListResourceRecordSets",
                                "route53:ListHostedZonesByName",
                                "route53:ListHostedZones",
                                "route53:ListTagsForResource">>
                         ELSE <<"route53:ListResourceRecordSets",
                                "route53:ListHostedZonesByName">>

C7_Witness ==
    /\ ReturnedNil
    /\ IsEnabled(iamConfig.WithAddonPolicies.CertManager)
    /\ IsEnabled(iamConfig.WithAddonPolicies.ExternalDNS)
    /\ \E i \in CallsNamed("PolicyCertManagerHostedZones") :
           /\ Len(ActionsOf(i)) = 4
           /\ ActionsOf(i)[3] = "route53:ListHostedZones"

AfterAppMeshPreview ==
    pc \in {"EBS", "FSX", "EFS", "ALBIngress", "XRay", "returned"} /\ err = "nil"

\* C9: with AppMesh and AppMeshPreview both enabled createRole attaches the
\* wildcard-scope statements PolicyAppMesh and PolicyAppMeshPreview, once
\* each; from its call on, the actions of PolicyAppMesh are the shared list
\* followed by "appmesh:*" and those of PolicyAppMeshPreview the shared list
\* followed by "appmesh-preview:*": the second append leaves the first list
\* as it was.
C9_AppMeshListsIndependent ==
    (/\ IsEnabled(iamConfig.WithAddonPolicies.AppMesh)
     /\ IsEnabled(iamConfig.WithAddonPolicies.AppMeshPreview))
        => /\ \A i \in CallsNamed("PolicyAppMesh") :
                  /\ calls[i].resources = [kind |-> "String", value |-> <<"*">>]
                  /\ ActionsOf(i) = Append(appMeshActionsLiteral, "appmesh:*")
                  /\ "appmesh-preview:*" \notin Range(ActionsOf(i))
           /\ \A i \in CallsNamed("PolicyAppMeshPreview") :
                  /\ calls[i].resources = [kind |-> "String", value |-> <<"*">>]
                  /\ ActionsOf(i) = Append(appMeshActionsLiteral, "appmesh-preview:*")
                  /\ "appmesh:*" \notin Range(ActionsOf(i))
           /\ AfterAppMeshPreview
                  => /\ Cardinality(CallsNamed("PolicyAppMesh")) = 1
                     /\ Cardinality(CallsNamed("PolicyAppMeshPreview")) = 1

C9_Witness ==
    /\ ReturnedNil
    /\ IsEnabled(iamConfig.WithAddonPolicies.AppMesh)
    /\ IsEnabled(iamConfig.WithAddonPolicies.AppMeshPreview)
    /\ \E i \in CallsNamed("PolicyAppMesh"), j \in CallsNamed("PolicyAppMeshPreview") :
           /\ i < j
           /\ ActionsOf(i)[18] = "appmesh:*"
           /\ ActionsOf(j)[18] = "appmesh-preview:*"

\* the addon each statement belongs to
AddonOf(name) ==
    CASE name = "PolicyAutoScaling" -> "AutoScaler"
      [] name \in {"PolicyCertManagerChangeSet", "PolicyCertManagerHostedZones",
                   "PolicyCertManagerGetChange"} -> "CertManager"
      [] name \in {"PolicyExternalDNSChangeSet", "PolicyExternalDNSHostedZones"}
             -> "ExternalDNS"
      [] name = "PolicyAppMesh" -> "AppMesh"
      [] name = "PolicyAppMeshPreview" -> "AppMeshPreview"
      [] name = "PolicyEBS" -> "EBS"
      [] name \in {"PolicyFSX", "PolicyServiceLinkRole"} -> "FSX"
      [] name \in {"PolicyEFS", "PolicyEFSEC2"} -> "EFS"
      [] name = "PolicyALBIngress" -> "ALBIngress"
      [] name = "PolicyXRay" -> "XRay"
      [] OTHER -> "none"

PositionIn(order, addon) == CHOOSE k \in 1..Len(order) : order[k] = addon

\* the addons whose statements createRole is to attach
AttachingAddons ==
    {a \in AddonNames \ {"ImageBuilder", "CloudWatch"} :
        /\ IsEnabled(iamConfig.WithAddonPolicies[a])
        /\ a = "ExternalDNS" => ~IsEnabled(iamConfig.WithAddonPolicies.CertManager)}

\* newResource is the first call and the only one of its kind, the
\* statements follow addon by addon in the given order, and on return every
\* attaching addon has its statements
CallsFollow(order) ==
    /\ calls # <<>> => calls[1].op = "newResource"
    /\ \A i \in 2..Len(calls) : calls[i].op = "attachAllowPolicy"
    /\ \A i, j \in AttachCalls :
           i < j => PositionIn(order, AddonOf(calls[i].name))
                        <= PositionIn(order, AddonOf(calls[j].name))
    /\ ReturnedNil
           => /\ Len(calls) >= 1
              /\ {AddonOf(calls[i].name) : i \in AttachCalls} = AttachingAddons

\* C10 as claimed: on a successful run newResource is called exactly once
\* and before any attachAllowPolicy call, and the addons' statements are
\* attached in the order autoscaler, certificate-manager, external-DNS,
\* app-mesh, app-mesh-preview, EBS, EFS, FSX, ALB-ingress, XRay.
C10_CallsInSpecOrder ==
    CallsFollow(<<"AutoScaler", "CertManager", "ExternalDNS", "AppMesh",
                  "AppMeshPreview", "EBS", "EFS", "FSX", "ALBIngress", "XRay">>)

\* C10 amended: the same with FSX before EFS: autoscaler,
\* certificate-manager, external-DNS, app-mesh, app-mesh-preview, EBS, FSX,
\* EFS, ALB-ingress, XRay.
C10_CallsInSourceOrder ==
    CallsFollow(<<"AutoScaler", "CertManager", "ExternalDNS", "AppMesh",
                  "AppMeshPreview", "EBS", "FSX", "EFS", "ALBIngress", "XRay">>)

C10_Witness ==
    /\ ReturnedNil
    /\ \A a \in PlainAddons : IsEnabled(iamConfig.WithAddonPolicies[a])
    /\ calls[1].op = "newResource"
    /\ \E i \in CallsNamed("PolicyServiceLinkRole"), j \in CallsNamed("PolicyEFS") :
           i < j
    /\ calls[Len(calls)].name = "PolicyXRay"

(***************************************************************************)
(* Properties of NormalizeARN                                              *)
(***************************************************************************)
Slashes(s) == {i \in 1..Len(s) : s[i] = "/"}

\* C8: NormalizeARN returns an input without '/' unchanged, and otherwise
\* the part before the first '/', one '/', and the part after the last '/'.
C8_NormalizeKeepsFirstAndLastSegment ==
    pc = "normalized"
        => IF Slashes(arn) = {}
           THEN normalized = arn
           ELSE LET first == CHOOSE i \in Slashes(arn) : \A j \in Slashes(arn) : i <= j
                    last == CHOOSE i \in Slashes(arn) : \A j \in Slashes(arn) : j <= i
                IN normalized = SubSeq(arn, 1, first - 1) \o <<"/">>
                                    \o SubSeq(arn, last + 1, Len(arn))

C8_Witness ==
    /\ pc = "normalized"
    /\ arn = <<"a", "/", "b", "/", "a">>
    /\ normalized = <<"a", "/", "a">>

====
